---- MODULE Spec2Model ----
(***************************************************************************)
(* Model of the query-understanding and retrieval-orchestration pipeline   *)
(* of rag-on-postgres:                                                      *)
(*   - SimpleRAGChat.run              (src/src/fastapi_app/rag_simple.py)   *)
(*   - extract_search_arguments       (src/src/fastapi_app/query_rewriter.py)*)
(* A Python dict is a function whose DOMAIN is the set of keys present.     *)
(* Python's None is the value None below.  A text whose characters matter   *)
(* (str.strip) is a sequence of characters; an opaque text is a string.     *)
(***************************************************************************)
EXTENDS Integers, Sequences, FiniteSets, TLC

\* ------------------------------------------------------------------ bounds
\* longest conversation handed to run
MaxMsgs == 2
\* largest `top` a caller supplies in overrides
MaxTop == 2
\* most tool invocations in one model response
MaxCalls == 2
\* longest text content of a model response, in characters
MaxLen == 3

\* ------------------------------------------------------------- Python bits
None == "None"

\* dict.get(key, default)
Get(d, k, default) == IF k \in DOMAIN d THEN d[k] ELSE default

\* ------------------------------------------------------- SimpleRAGChat.run
Runs == {"r1", "r2"}

\* user utterances (message contents)
Utterances == {"red shoes", "blue hat"}

Message == [role : {"user"}, content : Utterances]

MessageLists == UNION {[1..n -> Message] : n \in 0..MaxMsgs}

\* retrieval_mode values a caller may put in overrides; "graph" stands for any
\* value outside {"text", "vectors", "hybrid", None}
RetrievalModes == {"text", "vectors", "hybrid", None, "graph"}

\* `top` values a caller may put in overrides
TopValues == (0 - 1)..MaxTop

\* overrides dicts: each recognised key present or absent
OverridesSet ==
  {<<>>}
    \cup [retrieval_mode : RetrievalModes]
    \cup [top : TopValues]
    \cup [retrieval_mode : RetrievalModes, top : TopValues]

\* the catalog items the retriever can return: a stable id and the text
\* Item.to_str_for_rag() renders
Catalog == {[id |-> "i1", rag |-> "t1"], [id |-> "i2", rag |-> "t2"]}

\* what searcher.search can return: any ranking of any part of the catalog
Rankings ==
  {s \in UNION {[1..n -> Catalog] : n \in 0..Cardinality(Catalog)} :
     \A i, j \in DOMAIN s : i # j => s[i] # s[j]}

\* what compute_text_embedding can return
Embeddings == {<<1>>, <<2>>}

\* the instance built by __init__: chat_deployment is None outside Azure
Instances ==
  [chat_model : {"gpt"}, chat_deployment : {None, "dep"},
   answer_prompt_template : {"answer.txt"}]

VARIABLES
  instance,      \* the SimpleRAGChat instance's fields (self)
  messages,      \* per run: the caller's messages list
  overrides,     \* per run: the caller's overrides dict
  pc,            \* per run: position in run
  locals,        \* per run: run's local variables
  calls,         \* per run: the external calls made and how each ended, in order
  search_args,   \* per run: the arguments searcher.search was invoked with
  response,      \* per run: the value run returned, NoResponse before
  raised,        \* per run: the exception that ended run, None otherwise
  chat_completion,  \* the model response handed to extract_search_arguments
  extracted      \* what extract_search_arguments did with it

vars == <<instance, messages, overrides, pc, locals, calls, search_args,
          response, raised, chat_completion, extracted>>

runVars == <<instance, messages, overrides, pc, locals, calls, search_args, response, raised>>

extractVars == <<chat_completion, extracted>>

\* rag_simple.py:45
text_search(o) == Get(o, "retrieval_mode", None) \in {"text", "hybrid", None}

\* a vector search in every mode
vector_search_always(o) == TRUE

\* rag_simple.py:46
vector_search(o) == Get(o, "retrieval_mode", None) \in {"vectors", "hybrid", None}

\* rag_simple.py:47
top_of(o) == Get(o, "top", 3)

\* locals before their first assignment
NoLocals ==
  [text_search |-> FALSE, vector_search |-> FALSE, top |-> 0,
   original_user_query |-> None, past_messages |-> <<>>,
   vector |-> <<>>, query_text |-> None, results |-> <<>>,
   sources_content |-> <<>>, prompt |-> <<>>]

\* rag_simple.py:45-54: the flags, top, the split of messages, and the initial
\* vector and query_text; messages[-1] raises IndexError on an empty list
Begin(r) ==
  /\ pc[r] = "start"
  /\ IF Len(messages[r]) = 0
       THEN /\ pc' = [pc EXCEPT ![r] = "failed"]
            /\ raised' = [raised EXCEPT ![r] = "IndexError"]
            /\ locals' = [locals EXCEPT ![r] =
                 [@ EXCEPT !.text_search = text_search(overrides[r]),
                           !.vector_search = vector_search(overrides[r]),
                           !.top = top_of(overrides[r])]]
       ELSE /\ pc' = [pc EXCEPT ![r] =
                 IF vector_search(overrides[r]) THEN "embed" ELSE "search"]
            /\ raised' = raised
            /\ locals' = [locals EXCEPT ![r] =
                 [@ EXCEPT !.text_search = text_search(overrides[r]),
                           !.vector_search = vector_search(overrides[r]),
                           !.top = top_of(overrides[r]),
                           !.original_user_query =
                              messages[r][Len(messages[r])].content,
                           !.past_messages =
                              SubSeq(messages[r], 1, Len(messages[r]) - 1),
                           !.vector = <<>>,
                           !.query_text = None]]
  /\ UNCHANGED <<instance, messages, overrides, calls, search_args, response>>
  /\ UNCHANGED extractVars

\* rag_simple.py:55-56: `if vector_search:` the embedding call is issued
CallEmbedding(r) ==
  /\ pc[r] = "embed"
  /\ pc' = [pc EXCEPT ![r] = "embedding"]
  /\ calls' = [calls EXCEPT ![r] = Append(@, "embed_call")]
  /\ UNCHANGED <<instance, messages, overrides, locals, search_args, response, raised>>
  /\ UNCHANGED extractVars

\* rag_simple.py:56-62: the awaited compute_text_embedding returns a vector
EmbeddingReturns(r) ==
  /\ pc[r] = "embedding"
  /\ \E v \in Embeddings :
       locals' = [locals EXCEPT ![r] = [@ EXCEPT !.vector = v]]
  /\ pc' = [pc EXCEPT ![r] = "search"]
  /\ calls' = [calls EXCEPT ![r] = Append(@, "embed_ret")]
  /\ UNCHANGED <<instance, messages, overrides, search_args, response, raised>>
  /\ UNCHANGED extractVars

\* the embedding failure is swallowed and run goes on without a vector
EmbeddingFailsSwallowed(r) ==
  /\ pc[r] = "embedding"
  /\ pc' = [pc EXCEPT ![r] = "search"]
  /\ calls' = [calls EXCEPT ![r] = Append(@, "embed_fail")]
  /\ UNCHANGED <<instance, messages, overrides, locals, search_args, response, raised>>
  /\ UNCHANGED extractVars

\* rag_simple.py:56-62: the awaited compute_text_embedding raises; run has no
\* try/except, so the exception leaves run
EmbeddingFails(r) ==
  /\ pc[r] = "embedding"
  /\ pc' = [pc EXCEPT ![r] = "failed"]
  /\ raised' = [raised EXCEPT ![r] = "EmbeddingError"]
  /\ calls' = [calls EXCEPT ![r] = Append(@, "embed_fail")]
  /\ UNCHANGED <<instance, messages, overrides, locals, search_args, response>>
  /\ UNCHANGED extractVars

\* rag_simple.py:63-64
QueryText(l) == IF l.text_search THEN l.original_user_query ELSE l.query_text

\* rag_simple.py:66: the arguments of searcher.search(query_text, vector, top)
SearchArguments(l) ==
  [query_text |-> l.query_text, query_vector |-> l.vector, top |-> l.top]

\* the query is also kept on the instance
CallSearchCaching(r) ==
  /\ pc[r] = "search"
  /\ locals' = [locals EXCEPT ![r] = [@ EXCEPT !.query_text = QueryText(locals[r])]]
  /\ search_args' = [search_args EXCEPT ![r] = SearchArguments(locals'[r])]
  /\ instance' = [instance EXCEPT !.answer_prompt_template = locals[r].original_user_query]
  /\ pc' = [pc EXCEPT ![r] = "searching"]
  /\ calls' = [calls EXCEPT ![r] = Append(@, "search_call")]
  /\ UNCHANGED <<messages, overrides, response, raised>>
  /\ UNCHANGED extractVars

\* rag_simple.py:63-66: query_text is set and searcher.search is invoked
CallSearch(r) ==
  /\ pc[r] = "search"
  /\ locals' = [locals EXCEPT ![r] = [@ EXCEPT !.query_text = QueryText(locals[r])]]
  /\ search_args' = [search_args EXCEPT ![r] = SearchArguments(locals'[r])]
  /\ pc' = [pc EXCEPT ![r] = "searching"]
  /\ calls' = [calls EXCEPT ![r] = Append(@, "search_call")]
  /\ UNCHANGED <<instance, messages, overrides, response, raised>>
  /\ UNCHANGED extractVars

\* rag_simple.py:66: the awaited searcher.search returns the ranked items
SearchReturns(r) ==
  /\ pc[r] = "searching"
  /\ \E res \in Rankings :
       locals' = [locals EXCEPT ![r] = [@ EXCEPT !.results = res]]
  /\ pc' = [pc EXCEPT ![r] = "chat"]
  /\ calls' = [calls EXCEPT ![r] = Append(@, "search_ret")]
  /\ UNCHANGED <<instance, messages, overrides, search_args, response, raised>>
  /\ UNCHANGED extractVars

\* rag_simple.py:66: the awaited searcher.search raises
SearchFails(r) ==
  /\ pc[r] = "searching"
  /\ pc' = [pc EXCEPT ![r] = "failed"]
  /\ raised' = [raised EXCEPT ![r] = "SearchError"]
  /\ calls' = [calls EXCEPT ![r] = Append(@, "search_fail")]
  /\ UNCHANGED <<instance, messages, overrides, locals, search_args, response>>
  /\ UNCHANGED extractVars

\* the blocks in reverse order
SourcesContentReversed(results) ==
  [i \in 1..Len(results) |->
     <<"[", results[Len(results) + 1 - i].id, "]:", results[Len(results) + 1 - i].rag, "\n\n">>]

\* rag_simple.py:68: one block per item, f"[{item.id}]:{item.to_str_for_rag()}\n\n",
\* as the sequence of its parts
SourcesContent(results) ==
  [i \in 1..Len(results) |-> <<"[", results[i].id, "]:", results[i].rag, "\n\n">>]

\* rag_simple.py:74-81: build_messages keeps the system prompt and the new user
\* message and drops the `dropped` oldest past messages (the token budget
\* decides how many; prompt_template overrides are not modelled)
BuildMessages(self, l, sources, dropped) ==
  <<[role |-> "system", content |-> self.answer_prompt_template]>>
    \o SubSeq(l.past_messages, dropped + 1, Len(l.past_messages))
    \o <<[role |-> "user",
          content |-> <<l.original_user_query, "\n\nSources:\n", sources>>]>>

\* rag_simple.py:68-91: the source blocks and the prompt are built and the chat
\* completion is requested
CallChat(r) ==
  /\ pc[r] = "chat"
  /\ \E dropped \in 0..Len(locals[r].past_messages) :
       locals' = [locals EXCEPT ![r] =
         [@ EXCEPT !.sources_content = SourcesContent(locals[r].results),
                   !.prompt = BuildMessages(instance, locals[r],
                                SourcesContent(locals[r].results), dropped)]]
  /\ pc' = [pc EXCEPT ![r] = "completing"]
  /\ calls' = [calls EXCEPT ![r] = Append(@, "chat_call")]
  /\ UNCHANGED <<instance, messages, overrides, search_args, response, raised>>
  /\ UNCHANGED extractVars

\* rag_simple.py:95-118: the three ThoughtStep entries
Thoughts(self, l) ==
  <<[title |-> "Search query for database",
     description |-> l.query_text,
     props |-> [top |-> l.top, vector_search |-> l.vector_search,
                text_search |-> l.text_search]],
    [title |-> "Search results",
     description |-> l.results,
     props |-> <<>>],
    [title |-> "Prompt to generate answer",
     description |-> l.prompt,
     props |-> IF self.chat_deployment # None
                 THEN [model |-> self.chat_model, deployment |-> self.chat_deployment]
                 ELSE [model |-> self.chat_model]]>>

\* rag_simple.py:92-119: the completion record with choices[0].context attached
ChatResp(self, l) ==
  [choices |->
     <<[message |-> [role |-> "assistant", content |-> "answer"],
        context |-> [data_points |-> [text |-> l.sources_content],
                     thoughts |-> Thoughts(self, l)]]>>]

\* rag_simple.py:83-120: the awaited chat completion returns and run returns
\* the augmented record
ChatReturns(r) ==
  /\ pc[r] = "completing"
  /\ response' = [response EXCEPT ![r] = ChatResp(instance, locals[r])]
  /\ pc' = [pc EXCEPT ![r] = "done"]
  /\ calls' = [calls EXCEPT ![r] = Append(@, "chat_ret")]
  /\ UNCHANGED <<instance, messages, overrides, locals, search_args, raised>>
  /\ UNCHANGED extractVars

\* rag_simple.py:83-91: the awaited chat completion raises
ChatFails(r) ==
  /\ pc[r] = "completing"
  /\ pc' = [pc EXCEPT ![r] = "failed"]
  /\ raised' = [raised EXCEPT ![r] = "ChatError"]
  /\ calls' = [calls EXCEPT ![r] = Append(@, "chat_fail")]
  /\ UNCHANGED <<instance, messages, overrides, locals, search_args, response>>
  /\ UNCHANGED extractVars

\* ------------------------------------------------ extract_search_arguments
\* An optional text (str | None) is a sequence of at most one text: <<>> is
\* None, <<s>> is the text s; a text is a sequence of characters.
NoneText == <<>>

SomeText(s) == <<s>>

Chars == {" ", "\n", "a"}

Whitespace == {" ", "\n"}

Texts == UNION {[1..n -> Chars] : n \in 0..MaxLen}

\* str.strip(): the text without its leading and trailing whitespace
RECURSIVE lstrip(_)
lstrip(s) ==
  IF s # <<>> /\ Head(s) \in Whitespace THEN lstrip(Tail(s)) ELSE s

RECURSIVE rstrip(_)
rstrip(s) ==
  IF s # <<>> /\ s[Len(s)] \in Whitespace THEN rstrip(SubSeq(s, 1, Len(s) - 1)) ELSE s

\* only the leading whitespace is removed
strip_leading(s) == lstrip(s)

\* query_rewriter.py:90
strip(s) == rstrip(lstrip(s))

\* The argument payload of a tool invocation is JSON text: the members of one
\* object in textual order, and whether the text is closed (a text cut short
\* is not JSON).
SearchQueryMembers == {<<>>, << <<"search_query", <<"a">>>> >>}

PriceFilters ==
  {[comparison_operator |-> ">", value |-> 30],
   [comparison_operator |-> "<", value |-> 50],
   [value |-> 30]}

BrandFilters == {[comparison_operator |-> "==", value |-> "AirStrider"]}

PriceFilterMembers == {<<>>} \cup {<< <<"price_filter", f>> >> : f \in PriceFilters}

BrandFilterMembers == {<<>>} \cup {<< <<"brand_filter", f>> >> : f \in BrandFilters}

ObjectTexts ==
  {[members |-> q \o p \o b, closed |-> TRUE] :
     q \in SearchQueryMembers, p \in PriceFilterMembers, b \in BrandFilterMembers}
    \cup {[members |-> << <<"price_filter", [comparison_operator |-> ">", value |-> 30]>>,
                         <<"price_filter", [comparison_operator |-> "<", value |-> 50]>> >>,
           closed |-> TRUE]}

MalformedTexts == {[members |-> << <<"search_query", <<"a">>>> >>, closed |-> FALSE]}

ToolCalls ==
  {[type |-> "function", function |-> [name |-> "search_database", arguments |-> t]] :
     t \in ObjectTexts \cup MalformedTexts}
    \cup {[type |-> "function", function |-> [name |-> "other_tool", arguments |-> t]] :
            t \in MalformedTexts}
    \cup {[type |-> "custom", function |-> [name |-> "search_database", arguments |-> t]] :
            t \in MalformedTexts}

ToolCallLists == UNION {[1..n -> ToolCalls] : n \in 0..MaxCalls}

\* chat_completion.choices[0].message: tool_calls None and [] are both falsy
\* and are the empty sequence here
Completions ==
  {[content |-> c, tool_calls |-> <<>>] : c \in {NoneText} \cup {SomeText(t) : t \in Texts}}
    \cup {[content |-> c, tool_calls |-> tcs] :
            c \in {NoneText, SomeText(<<" ", "a">>)}, tcs \in ToolCallLists \ {<<>>}}

NoCompletion == [content |-> NoneText, tool_calls |-> <<>>]

NotExtracted == [status |-> "pending"]

Raise(e) == [status |-> "raised", error |-> e]

Return(q, fs) == [status |-> "returned", search_query |-> q, filters |-> fs]

\* a lenient decoder: the members read so far, whether or not the text is JSON
json_loads_lenient(text) ==
  LET ms == text.members
      last(k) == CHOOSE i \in DOMAIN ms :
                   /\ ms[i][1] = k
                   /\ \A j \in DOMAIN ms : ms[j][1] = k => j <= i
  IN [status |-> "parsed",
      value |-> [k \in {ms[i][1] : i \in DOMAIN ms} |-> ms[last(k)][2]]]

\* query_rewriter.py:69, json.loads: a text that is not JSON raises
\* JSONDecodeError; in an object a repeated key keeps its last value
json_loads(text) ==
  IF ~text.closed
    THEN Raise("JSONDecodeError")
    ELSE LET ms == text.members
             last(k) == CHOOSE i \in DOMAIN ms :
                          /\ ms[i][1] = k
                          /\ \A j \in DOMAIN ms : ms[j][1] = k => j <= i
         IN [status |-> "parsed",
             value |-> [k \in {ms[i][1] : i \in DOMAIN ms} |-> ms[last(k)][2]]]

\* query_rewriter.py:76-77, 85-86: both subscripts succeed
HasOperatorAndValue(f) == {"comparison_operator", "value"} \subseteq DOMAIN f

\* a filter replaces the earlier filters on its column
AppendFilterDedup(filters, column, f) ==
  Append(SelectSeq(filters, LAMBDA g : g.column # column),
         [column |-> column, comparison_operator |-> f.comparison_operator,
          value |-> f.value])

\* query_rewriter.py:73-79, 82-88: filters.append({...})
AppendFilter(filters, column, f) ==
  Append(filters,
         [column |-> column, comparison_operator |-> f.comparison_operator,
          value |-> f.value])

\* the brand filter is appended before the price filter
ArgFiltersBrandFirst(filters, arg) ==
  IF "price_filter" \in DOMAIN arg /\ ~HasOperatorAndValue(arg["price_filter"])
    THEN Raise("KeyError")
  ELSE IF "brand_filter" \in DOMAIN arg /\ ~HasOperatorAndValue(arg["brand_filter"])
    THEN Raise("KeyError")
  ELSE LET withBrand == IF "brand_filter" \in DOMAIN arg
                          THEN AppendFilter(filters, "brand", arg["brand_filter"])
                          ELSE filters
       IN [status |-> "appended",
           filters |-> IF "price_filter" \in DOMAIN arg
                         THEN AppendFilter(withBrand, "price", arg["price_filter"])
                         ELSE withBrand]

\* query_rewriter.py:71-88: the price filter, then the brand filter; a filter
\* object without comparison_operator or value raises KeyError
ArgFilters(filters, arg) ==
  IF "price_filter" \in DOMAIN arg /\ ~HasOperatorAndValue(arg["price_filter"])
    THEN Raise("KeyError")
  ELSE IF "brand_filter" \in DOMAIN arg /\ ~HasOperatorAndValue(arg["brand_filter"])
    THEN Raise("KeyError")
  ELSE LET withPrice == IF "price_filter" \in DOMAIN arg
                          THEN AppendFilter(filters, "price", arg["price_filter"])
                          ELSE filters
       IN [status |-> "appended",
           filters |-> IF "brand_filter" \in DOMAIN arg
                         THEN AppendFilter(withPrice, "brand", arg["brand_filter"])
                         ELSE withPrice]

\* query_rewriter.py:70, arg.get("search_query")
SearchQueryOf(arg) ==
  IF "search_query" \in DOMAIN arg THEN SomeText(arg["search_query"]) ELSE NoneText

\* query_rewriter.py:64-88: the loop over tool_calls from invocation i on, with
\* the search_query and filters so far
RECURSIVE ScanToolCalls(_, _, _, _)
ScanToolCalls(tool_calls, i, search_query, filters) ==
  IF i > Len(tool_calls)
    THEN Return(search_query, filters)
  ELSE LET tool == tool_calls[i] IN
    IF tool.type # "function"
      THEN ScanToolCalls(tool_calls, i + 1, search_query, filters)
    ELSE IF tool.function.name # "search_database"
      THEN ScanToolCalls(tool_calls, i + 1, search_query, filters)
    ELSE LET parsed == json_loads(tool.function.arguments) IN
      IF parsed.status = "raised"
        THEN parsed
      ELSE LET added == ArgFilters(filters, parsed.value) IN
        IF added.status = "raised"
          THEN added
          ELSE ScanToolCalls(tool_calls, i + 1, SearchQueryOf(parsed.value),
                             added.filters)

\* query_rewriter.py:59-91
extract_search_arguments(completion) ==
  IF completion.tool_calls # <<>>
    THEN ScanToolCalls(completion.tool_calls, 1, NoneText, <<>>)
  ELSE IF completion.content # NoneText /\ completion.content[1] # <<>>
    THEN Return(SomeText(strip(completion.content[1])), <<>>)
  ELSE Return(NoneText, <<>>)

\* a caller applies extract_search_arguments to a model response
Extract ==
  /\ extracted.status = "pending"
  /\ extracted' = extract_search_arguments(chat_completion)
  /\ UNCHANGED chat_completion
  /\ UNCHANGED runVars

\* run has not returned
NoResponse == [choices |-> <<>>]

\* searcher.search has not been invoked yet
NoSearchArgs == [query_text |-> None, query_vector |-> <<>>, top |-> 0]

\* one caller: run r1 on any messages and overrides; r2 is never called
Init ==
  /\ instance \in Instances
  /\ messages \in {f \in [Runs -> MessageLists] : f["r2"] = <<>>}
  /\ overrides \in {f \in [Runs -> OverridesSet] : f["r2"] = <<>>}
  /\ pc = [r \in Runs |-> IF r = "r1" THEN "start" ELSE "idle"]
  /\ locals = [r \in Runs |-> NoLocals]
  /\ calls = [r \in Runs |-> <<>>]
  /\ search_args = [r \in Runs |-> NoSearchArgs]
  /\ response = [r \in Runs |-> NoResponse]
  /\ raised = [r \in Runs |-> None]
  /\ chat_completion = NoCompletion
  /\ extracted = NotExtracted

\* inputs of the concurrent callers
ConcMessages ==
  {<<[role |-> "user", content |-> "red shoes"]>>,
   <<[role |-> "user", content |-> "blue hat"]>>}

ConcOverrides == {<<>>, [retrieval_mode |-> "text"], [retrieval_mode |-> "vectors"]}

\* two callers run concurrently on the same instance
InitConc ==
  /\ instance \in Instances
  /\ messages \in [Runs -> ConcMessages]
  /\ overrides \in [Runs -> ConcOverrides]
  /\ pc = [r \in Runs |-> "start"]
  /\ locals = [r \in Runs |-> NoLocals]
  /\ calls = [r \in Runs |-> <<>>]
  /\ search_args = [r \in Runs |-> NoSearchArgs]
  /\ response = [r \in Runs |-> NoResponse]
  /\ raised = [r \in Runs |-> None]
  /\ chat_completion = NoCompletion
  /\ extracted = NotExtracted

Next ==
  \E r \in Runs :
    \/ Begin(r)
    \/ CallEmbedding(r)
    \/ EmbeddingReturns(r)
    \/ EmbeddingFails(r)
    \/ CallSearch(r)
    \/ SearchReturns(r)
    \/ SearchFails(r)
    \/ CallChat(r)
    \/ ChatReturns(r)
    \/ ChatFails(r)

Spec == Init /\ [][Next]_vars

SpecConc == InitConc /\ [][Next]_vars

\* extract_search_arguments on any model response; no run is in progress
InitExtract ==
  /\ instance \in Instances
  /\ messages = [r \in Runs |-> <<>>]
  /\ overrides = [r \in Runs |-> <<>>]
  /\ pc = [r \in Runs |-> "idle"]
  /\ locals = [r \in Runs |-> NoLocals]
  /\ calls = [r \in Runs |-> <<>>]
  /\ search_args = [r \in Runs |-> NoSearchArgs]
  /\ response = [r \in Runs |-> NoResponse]
  /\ raised = [r \in Runs |-> None]
  /\ chat_completion \in Completions
  /\ extracted = NotExtracted

NextExtract == Extract

SpecExtract == InitExtract /\ [][NextExtract]_vars

\* ------------------------------------------------------------- properties
\* overrides.get("retrieval_mode") of run r
Mode(r) == Get(overrides[r], "retrieval_mode", None)

\* how often event e occurs in the call sequence c
Count(c, e) == Cardinality({i \in DOMAIN c : c[i] = e})

Made(r, e) == \E i \in DOMAIN calls[r] : calls[r][i] = e

\* the content of the last message run r was called with
UserQuery(r) == messages[r][Len(messages[r])].content

C2_NoSearchWithoutQuery ==
  \A r \in Runs :
    Made(r, "search_call") =>
      (search_args[r].query_text # None \/ search_args[r].query_vector # <<>>)

\* the place of an event in the order embedding, retrieval, chat completion
Rank(e) ==
  CASE e = "embed_call" -> 1
    [] e \in {"embed_ret", "embed_fail"} -> 2
    [] e = "search_call" -> 3
    [] e \in {"search_ret", "search_fail"} -> 4
    [] e = "chat_call" -> 5
    [] e \in {"chat_ret", "chat_fail"} -> 6

Failures == {"embed_fail", "search_fail", "chat_fail"}

\* C3: the external calls of one run happen in the order embedding (if any),
\* retrieval, chat completion, each at most once and each started only after
\* the previous one returned; a failed call is the last event of the run, the
\* run ends with that failure and returns no response.
C3_SequentialNoRetry ==
  \A r \in Runs :
    LET c == calls[r] IN
    /\ \A i, j \in DOMAIN c : i < j => Rank(c[i]) < Rank(c[j])
    /\ \A i \in DOMAIN c :
         /\ (Rank(c[i]) % 2 = 0) => (i > 1 /\ Rank(c[i - 1]) = Rank(c[i]) - 1)
         /\ (Rank(c[i]) % 2 = 1 /\ i > 1) => c[i - 1] \in {"embed_ret", "search_ret"}
         /\ c[i] = "chat_call" => (i > 1 /\ c[i - 1] = "search_ret")
         /\ c[i] \in Failures => (i = Len(c) /\ pc[r] = "failed")
    /\ pc[r] = "failed" =>
         /\ response[r] = NoResponse
         /\ raised[r] # None
         /\ raised[r] # "IndexError" => (c # <<>> /\ c[Len(c)] \in Failures)
    /\ pc[r] = "done" => (response[r] # NoResponse /\ raised[r] = None)

C3_Witness ==
  \E r \in Runs :
    /\ pc[r] = "failed"
    /\ calls[r] = <<"embed_call", "embed_ret", "search_call", "search_fail">>

\* C6: a returned response carries exactly three thought steps in the order
\* search query, search results, prompt, and one source block per retrieved
\* item, in the retriever's order, each carrying its item's id exactly once.
C6_ResponseShape ==
  \A r \in Runs :
    pc[r] = "done" =>
      LET ctx == response[r].choices[1].context
          res == locals[r].results
      IN /\ Len(ctx.thoughts) = 3
         /\ ctx.thoughts[1].title = "Search query for database"
         /\ ctx.thoughts[2].title = "Search results"
         /\ ctx.thoughts[3].title = "Prompt to generate answer"
         /\ ctx.thoughts[1].description = search_args[r].query_text
         /\ ctx.thoughts[2].description = res
         /\ Len(ctx.data_points.text) = Len(res)
         /\ \A i \in DOMAIN res :
              /\ Count(ctx.data_points.text[i], res[i].id) = 1
              /\ \A j \in DOMAIN res :
                   j # i => Count(ctx.data_points.text[i], res[j].id) = 0

C6_Witness ==
  \E r \in Runs : pc[r] = "done" /\ Len(locals[r].results) = 2

\* C7: the result cap passed to the retriever is a positive integer.
C7_TopPositive ==
  \A r \in Runs : Made(r, "search_call") => search_args[r].top > 0

\* what run r does on its own: the arguments of its search and its response
\* follow from its own messages, overrides and collaborator answers
RunsAsAlone(r) ==
  /\ Made(r, "search_call") =>
       /\ search_args[r].query_text =
            (IF Mode(r) \in {"text", "hybrid", None} THEN UserQuery(r) ELSE None)
       /\ search_args[r].top = Get(overrides[r], "top", 3)
       /\ search_args[r].query_vector = locals[r].vector
  /\ pc[r] = "done" =>
       LET ctx == response[r].choices[1].context IN
       /\ ctx.thoughts[1].description = search_args[r].query_text
       /\ ctx.thoughts[2].description = locals[r].results
       /\ ctx.thoughts[3].description[1].content = "answer.txt"
       /\ ctx.thoughts[3].description[Len(ctx.thoughts[3].description)].content[1]
            = UserQuery(r)

\* C9: run writes neither the instance's fields nor the caller's messages or
\* overrides; a step of one run leaves every other run's state alone, and each
\* of two concurrent runs calls the retriever and answers as it would alone.
C9_NoSharedState ==
  /\ [][/\ instance' = instance
        /\ messages' = messages
        /\ overrides' = overrides
        /\ \A r \in Runs :
             pc'[r] = pc[r] =>
               /\ locals'[r] = locals[r]
               /\ calls'[r] = calls[r]
               /\ search_args'[r] = search_args[r]
               /\ response'[r] = response[r]
               /\ raised'[r] = raised[r]]_vars
  /\ [](\A r \in Runs : RunsAsAlone(r))

C9_Witness ==
  /\ pc["r1"] = "searching"
  /\ pc["r2"] = "completing"
  /\ UserQuery("r1") # UserQuery("r2")

IsSearchCall(t) == t.type = "function" /\ t.function.name = "search_database"

SearchCalls(tcs) == {i \in DOMAIN tcs : IsSearchCall(tcs[i])}

\* the payload of invocation t is JSON
Parses(t) == t.function.arguments.closed

\* the object the payload of invocation t denotes
Arg(t) == json_loads(t.function.arguments).value

\* every filter the object supplies has a comparison_operator and a value
SuppliesWholeFilters(arg) ==
  \A k \in {"price_filter", "brand_filter"} \cap DOMAIN arg :
    {"comparison_operator", "value"} \subseteq DOMAIN arg[k]

\* the filters an object supplies: price, then brand
SuppliedFilters(arg) ==
  (IF "price_filter" \in DOMAIN arg
     THEN <<[column |-> "price",
             comparison_operator |-> arg["price_filter"].comparison_operator,
             value |-> arg["price_filter"].value]>>
     ELSE <<>>)
    \o (IF "brand_filter" \in DOMAIN arg
          THEN <<[column |-> "brand",
                  comparison_operator |-> arg["brand_filter"].comparison_operator,
                  value |-> arg["brand_filter"].value]>>
          ELSE <<>>)

\* C4: for a response with a single search_database function invocation (whose
\* payload parses and whose filters carry an operator and a value) the query
\* is the invocation's search_query and the filters are the supplied price
\* filter, then the supplied brand filter, each with its operator and value.
C4_SingleInvocation ==
  LET tcs == chat_completion.tool_calls IN
  (/\ extracted.status # "pending"
   /\ Cardinality(SearchCalls(tcs)) = 1
   /\ \A i \in SearchCalls(tcs) : Parses(tcs[i]) /\ SuppliesWholeFilters(Arg(tcs[i])))
    => \A i \in SearchCalls(tcs) :
         /\ extracted.status = "returned"
         /\ extracted.search_query =
              (IF "search_query" \in DOMAIN Arg(tcs[i])
                 THEN <<Arg(tcs[i])["search_query"]>> ELSE <<>>)
         /\ extracted.filters = SuppliedFilters(Arg(tcs[i]))

C4_Witness ==
  /\ extracted.status = "returned"
  /\ Len(chat_completion.tool_calls) = 2
  /\ Cardinality(SearchCalls(chat_completion.tool_calls)) = 1
  /\ extracted.search_query = <<<<"a">>>>
  /\ Len(extracted.filters) = 2
  /\ extracted.filters[1].column = "price"
  /\ extracted.filters[2].column = "brand"

\* t is s without its leading and trailing whitespace
IsTrimOf(t, s) ==
  /\ t = <<>> \/ (t[1] \notin Whitespace /\ t[Len(t)] \notin Whitespace)
  /\ \E i \in 1..(Len(s) + 1) :
       /\ i + Len(t) - 1 <= Len(s)
       /\ t = SubSeq(s, i, i + Len(t) - 1)
       /\ \A k \in DOMAIN s : (k < i \/ k > i + Len(t) - 1) => s[k] \in Whitespace

\* C5: for a response with no tool invocation the filter list is empty, and the
\* query is the whitespace-trimmed content when there is text content, and
\* null when there is none (content None or the empty text).
C5_NoToolCall ==
  (extracted.status # "pending" /\ chat_completion.tool_calls = <<>>) =>
    /\ extracted.status = "returned"
    /\ extracted.filters = <<>>
    /\ (chat_completion.content = <<>> \/ chat_completion.content = << <<>> >>)
         => extracted.search_query = <<>>
    /\ (chat_completion.content # <<>> /\ chat_completion.content # << <<>> >>)
         => /\ Len(extracted.search_query) = 1
            /\ IsTrimOf(extracted.search_query[1], chat_completion.content[1])

C5_Witness ==
  /\ extracted.status = "returned"
  /\ chat_completion.tool_calls = <<>>
  /\ chat_completion.content = << <<" ", "a", "\n">> >>
  /\ extracted.search_query = << <<"a">> >>

\* C8: when a search_database function invocation carries a payload that does
\* not parse, extract_search_arguments raises and returns no pair, whatever
\* else the response contains.
C8_MalformedRaises ==
  (/\ extracted.status # "pending"
   /\ \E i \in SearchCalls(chat_completion.tool_calls) :
        ~Parses(chat_completion.tool_calls[i]))
    => /\ extracted.status = "raised"
       /\ DOMAIN extracted = {"status", "error"}

C8_Witness ==
  /\ extracted.status = "raised"
  /\ extracted.error = "JSONDecodeError"
  /\ chat_completion.content # <<>>
  /\ Len(chat_completion.tool_calls) = 2
  /\ IsSearchCall(chat_completion.tool_calls[1])
  /\ Parses(chat_completion.tool_calls[1])
  /\ "price_filter" \in DOMAIN Arg(chat_completion.tool_calls[1])
  /\ SuppliesWholeFilters(Arg(chat_completion.tool_calls[1]))
  /\ IsSearchCall(chat_completion.tool_calls[2])
  /\ ~Parses(chat_completion.tool_calls[2])

\* the filters of all search_database function invocations, in order
RECURSIVE AllSuppliedFilters(_)
AllSuppliedFilters(tcs) ==
  IF tcs = <<>>
    THEN <<>>
    ELSE (IF IsSearchCall(Head(tcs)) THEN SuppliedFilters(Arg(Head(tcs))) ELSE <<>>)
           \o AllSuppliedFilters(Tail(tcs))

\* C10: all tool invocations are processed in order; those that are not
\* search_database function invocations contribute nothing and raise nothing,
\* and the returned filters are the filters of every search_database
\* invocation concatenated in order, two filters on one column both kept.
C10_FiltersAccumulate ==
  LET tcs == chat_completion.tool_calls IN
  (extracted.status # "pending" /\ tcs # <<>>) =>
    /\ (\A i \in SearchCalls(tcs) : Parses(tcs[i]) /\ SuppliesWholeFilters(Arg(tcs[i])))
         => extracted.status = "returned"
    /\ extracted.status = "returned" => extracted.filters = AllSuppliedFilters(tcs)

C10_Witness ==
  /\ extracted.status = "returned"
  /\ Len(chat_completion.tool_calls) = 2
  /\ Len(extracted.filters) = 2
  /\ extracted.filters[1].column = "price"
  /\ extracted.filters[2].column = "price"
  /\ extracted.filters[1] # extracted.filters[2]
====
